---- MODULE Spec2Model ----
(***************************************************************************)
(* Cascading-failure driver of GridCal (Engine/BlackOutDriver.py).         *)
(*                                                                         *)
(* Conventions.  A Python list or numpy array is a TLA+ sequence; branch   *)
(* indices are the 0-based values the code uses, so arr[i] of the code is  *)
(* At(arr, i) here.  Floats are integers in hundredths (1.0 is 100, 0.1 is *)
(* 10).  len(calculation_inputs) is kept as the number calculation_inputs. *)
(***************************************************************************)
EXTENDS Integers, Sequences, FiniteSets, TLC

\* ---- bounds of the model ------------------------------------------------
MaxBuses == 2
MaxTol == 1
MaxBranches == 1
MaxLen == 3
MaxIdx == 2
MaxEvents == 2
\* buses of the branchless grids of SpecBare
MaxBusesBare == 3

\* ---- sample values --------------------------------------------------------
\* loadings given to remove_elements (hundredths; negative flows included)
LoadVals == {-120, -90, 50, 90, 120}
\* last-row loadings and overload probabilities reported by the sampler
CdfLoadVals == {50, 120}
ProbVals == {5, 10}

\* ---- min_prob as run() passes it to remove_probability_based (0.1) -------
min_prob == 10

VARIABLES
    pc,                     \* position of the thread executing run() / a heuristic
    cpc,                    \* position of the thread executing cancel()
    __cancel__,             \* Cascading.__cancel__
    buses,                  \* len(self.grid.buses)
    max_additional_islands, \* Cascading.max_additional_islands
    triggering_idx,         \* Cascading.triggering_idx
    cascade_type,           \* Cascading.cascade_type
    results_cascade_type,   \* Cascading.results.cascade_type, the tag of the log
    current_step,           \* Cascading.current_step
    branch_states,          \* circuit.branch_states
    calculation_inputs,     \* len(calculation_inputs)
    n_grids,                \* run(): n_grids
    it,                     \* run(): it
    results,                \* model_simulator.results: the identity of the object
    cdf,                    \* what results.get_index_loading_cdf returned to the
                            \* heuristic under examination
    loading_vector,         \* remove_elements: loading_vector
    idx_arg,                \* remove_elements: idx as passed by the caller
    idx,                    \* the index list a heuristic returned
    criteria,               \* the criteria a heuristic returned
    rand,                   \* the value np.random.randint returned, -1 if not drawn
    exc,                    \* exception raised by the last heuristic call
    events,                 \* Cascading.results.events
    progress_signal,        \* last value emitted on progress_signal
    progress_text,          \* last text emitted on progress_text
    done_signal,            \* done_signal emissions since run() began: 0, 1, or 2
                            \* for two or more
    ret,                    \* what the last get_failed_idx() call produced
    cancelled_in,           \* iteration (from 1) in which cancel() set the flag, else 0
    pre_branch_states       \* branch_states as they were when the last heuristic began

vars == <<pc, cpc, __cancel__, buses, max_additional_islands, triggering_idx,
          cascade_type, results_cascade_type,
          current_step, branch_states,
          calculation_inputs, n_grids, it, results, cdf, loading_vector, idx_arg,
          idx, criteria, rand, exc, events, progress_signal, progress_text, done_signal,
          ret, cancelled_in, pre_branch_states>>

\* ---- Python / numpy helpers ---------------------------------------------
At(arr, i) == arr[i + 1]

Abs(x) == IF x < 0 THEN 0 - x ELSE x

\* abs(loading_vector)
AbsVec(v) == [p \in 1..Len(v) |-> Abs(v[p])]

Range(s) == {s[p] : p \in 1..Len(s)}

SeqMax(s) == CHOOSE m \in Range(s) : \A x \in Range(s) : x <= m

\* np.where(cond)[0]: the 0-based positions of v whose value satisfies cond,
\* ascending; cond is given as the set of values that satisfy it
Where(v, cond) == SelectSeq([p \in 1..Len(v) |-> p - 1], LAMBDA i : At(v, i) \in cond)

\* "for i in idx: circuit.branch_states[i] = False"
Disable(states, indices) ==
    [p \in 1..Len(states) |-> IF (p - 1) \in Range(indices) THEN FALSE ELSE states[p]]

None == [is_none |-> TRUE, val |-> <<>>]
Some(s) == [is_none |-> FALSE, val |-> s]

\* every sequence over S of length 0..n
SeqsUpTo(S, n) == UNION {[1..k -> S] : k \in 0..n}

\* ---- CascadingReportElement ----------------------------------------------
CascadingReportElement(removed_idx, pf_results, crit) ==
    [removed_idx |-> removed_idx, pf_results |-> pf_results, criteria |-> crit]

\* ---- deterministic-threshold removal ------------------------------------
\* variant: only the first of the tied maxima is selected
remove_elements_first_max(states, loading, idx_in) ==
    LET load == AbsVec(loading)
        over == Where(load, {x \in Range(load) : x > 100})
        sel  == IF ~idx_in.is_none THEN idx_in.val
                ELSE IF Len(over) > 0 THEN over
                ELSE IF Len(load) = 0 THEN <<>>
                ELSE <<Head(Where(load, {x \in Range(load) : x >= SeqMax(load)}))>>
    IN  IF idx_in.is_none /\ Len(load) = 0
        THEN [idx |-> <<>>, branch_states |-> states, exc |-> "ValueError"]
        ELSE [idx |-> sel, branch_states |-> Disable(states, sel), exc |-> "none"]

\* variant: explicit indices are filtered down to the overloaded ones
remove_elements_filtered(states, loading, idx_in) ==
    LET load == AbsVec(loading)
        over == Where(load, {x \in Range(load) : x > 100})
        sel  == IF ~idx_in.is_none
                THEN SelectSeq(idx_in.val, LAMBDA i : At(load, i) > 100)
                ELSE IF Len(over) > 0 THEN over
                ELSE IF Len(load) = 0 THEN <<>>
                ELSE Where(load, {x \in Range(load) : x >= SeqMax(load)})
    IN  IF idx_in.is_none /\ Len(load) = 0
        THEN [idx |-> <<>>, branch_states |-> states, exc |-> "ValueError"]
        ELSE [idx |-> sel, branch_states |-> Disable(states, sel), exc |-> "none"]

\* variant: the loadings are compared with their sign
remove_elements_signed(states, loading, idx_in) ==
    LET load == loading
        over == Where(load, {x \in Range(load) : x > 100})
        sel  == IF ~idx_in.is_none THEN idx_in.val
                ELSE IF Len(over) > 0 THEN over
                ELSE IF Len(load) = 0 THEN <<>>
                ELSE Where(load, {x \in Range(load) : x >= SeqMax(load)})
    IN  IF idx_in.is_none /\ Len(load) = 0
        THEN [idx |-> <<>>, branch_states |-> states, exc |-> "ValueError"]
        ELSE [idx |-> sel, branch_states |-> Disable(states, sel), exc |-> "none"]

\* Cascading.remove_elements(circuit, loading_vector, idx): the returned idx,
\* the branch states afterwards, and the exception raised (load.max() of an
\* empty array raises ValueError before any branch is touched)
remove_elements(states, loading, idx_in) ==
    LET load == AbsVec(loading)
        over == Where(load, {x \in Range(load) : x > 100})
        sel  == IF ~idx_in.is_none THEN idx_in.val
                ELSE IF Len(over) > 0 THEN over
                ELSE IF Len(load) = 0 THEN <<>>
                ELSE Where(load, {x \in Range(load) : x >= SeqMax(load)})
    IN  IF idx_in.is_none /\ Len(load) = 0
        THEN [idx |-> <<>>, branch_states |-> states, exc |-> "ValueError"]
        ELSE [idx |-> sel, branch_states |-> Disable(states, sel), exc |-> "none"]

\* ---- the sampler's overload summary ---------------------------------------
\* strictly ascending index lists over the branches 0..nb-1
AscendingIdx(nb) ==
    {s \in SeqsUpTo(0..(nb - 1), nb) : \A p, q \in 1..Len(s) : p < q => s[p] < s[q]}

\* MonteCarloResults.get_index_loading_cdf(max_val) for a grid of nb branches:
\* the overload candidates (branch indices), their overload probabilities and
\* the per-branch loadings.  The 'val' list is not read by the driver.
get_index_loading_cdf(nb) ==
    UNION {[idx : {ix}, prob : [1..Len(ix) -> ProbVals], loading : [1..nb -> CdfLoadVals]] :
              ix \in AscendingIdx(nb)}

NoCdf == [idx |-> <<>>, prob |-> <<>>, loading |-> <<>>]

\* str(min_prob) for the thresholds in use
str(p) == CASE p = 10 -> "0.1" [] p = 5 -> "0.05" [] OTHER -> "0.5"

\* the candidates reaching the threshold, in candidate order
AtLeast(res, minp) ==
    LET pos == SelectSeq([p \in 1..Len(res.idx) |-> p], LAMBDA p : res.prob[p] >= minp)
    IN  [k \in 1..Len(pos) |-> res.idx[pos[k]]]

\* variant of AtLeast: strictly above the threshold
MoreThan(res, minp) ==
    LET pos == SelectSeq([p \in 1..Len(res.idx) |-> p], LAMBDA p : res.prob[p] > minp)
    IN  [k \in 1..Len(pos) |-> res.idx[pos[k]]]

\* the draws np.random.randint(0, len(idx)) can return in this call; -1 when
\* the call does not reach the draw
RandInts(res, minp) ==
    IF Len(AtLeast(res, minp)) = 0 /\ Len(res.loading) > 0 /\ Len(res.idx) > 0
    THEN 0..(Len(res.idx) - 1)
    ELSE {-1}

\* variant: the fallback branch is disabled but not reported
remove_probability_based_unlisted(states, res, minp, r) ==
    LET hit == AtLeast(res, minp)
        idx_val == IF Len(res.idx) > 0 THEN r
                   ELSE Head(Where(res.loading, {SeqMax(res.loading)}))
    IN  IF Len(hit) > 0
        THEN [indices |-> hit, criteria |-> "Overload probability > " \o str(minp),
              branch_states |-> Disable(states, hit)]
        ELSE IF Len(res.loading) > 0
        THEN [indices |-> <<>>,
              criteria |-> IF Len(res.idx) > 0 THEN "Random with overloads"
                           ELSE "Max loading, Overloads not seen",
              branch_states |-> Disable(states, <<idx_val>>)]
        ELSE [indices |-> <<>>, criteria |-> "No branches", branch_states |-> states]

\* variant: the threshold test is prob > min_prob
remove_probability_based_gt(states, res, minp, r) ==
    LET hit == MoreThan(res, minp)
        idx_val == IF Len(res.idx) > 0 THEN IF r < 0 THEN 0 ELSE r
                   ELSE Head(Where(res.loading, {SeqMax(res.loading)}))
    IN  IF Len(hit) > 0
        THEN [indices |-> hit, criteria |-> "Overload probability > " \o str(minp),
              branch_states |-> Disable(states, hit)]
        ELSE IF Len(res.loading) > 0
        THEN [indices |-> <<idx_val>>,
              criteria |-> IF Len(res.idx) > 0 THEN "Random with overloads"
                           ELSE "Max loading, Overloads not seen",
              branch_states |-> Disable(states, <<idx_val>>)]
        ELSE [indices |-> <<>>, criteria |-> "No branches", branch_states |-> states]

\* Cascading.remove_probability_based(numerical_circuit, results, max_val,
\* min_prob) with r the value of np.random.randint(0, len(idx))
remove_probability_based(states, res, minp, r) ==
    LET hit == AtLeast(res, minp)
        idx_val == IF Len(res.idx) > 0 THEN r
                   ELSE Head(Where(res.loading, {SeqMax(res.loading)}))
    IN  IF Len(hit) > 0
        THEN [indices |-> hit, criteria |-> "Overload probability > " \o str(minp),
              branch_states |-> Disable(states, hit)]
        ELSE IF Len(res.loading) > 0
        THEN [indices |-> <<idx_val>>,
              criteria |-> IF Len(res.idx) > 0 THEN "Random with overloads"
                           ELSE "Max loading, Overloads not seen",
              branch_states |-> Disable(states, <<idx_val>>)]
        ELSE [indices |-> <<>>, criteria |-> "No branches", branch_states |-> states]

\* ---- CascadingResults ------------------------------------------------------
\* entry[k] on a CascadingReportElement: the class defines only __init__, so
\* subscripting it raises TypeError
GetItem(entry, k) == [exc |-> "TypeError", val |-> <<>>]

RECURSIVE failed_idx_loop(_, _, _)
\* the loop of get_failed_idx over events[from..]: res = np.r_[res, events[i][0]]
failed_idx_loop(res, evs, from) ==
    IF from > Len(evs) THEN [kind |-> "value", val |-> res]
    ELSE LET item == GetItem(evs[from], 0)
         IN  IF item.exc # "none" THEN [kind |-> item.exc, val |-> <<>>]
             ELSE failed_idx_loop(res \o item.val, evs, from + 1)

\* CascadingResults.get_failed_idx(): res stays None when there is no event
get_failed_idx(evs) ==
    IF Len(evs) = 0 THEN [kind |-> "None", val |-> <<>>] ELSE failed_idx_loop(<<>>, evs, 1)

\* variant: the step labels count from 0
get_table_from_zero(evs) ==
    [k \in 1..Len(evs) |->
        LET i == k - 1
        IN  <<"Step " \o ToString(i), Len(At(evs, i).removed_idx), At(evs, i).criteria>>]

\* CascadingResults.get_table(): the rows handed to the DataFrame, one list
\* ['Step ' + str(i + 1), len(removed_idx), criteria] per event
get_table(evs) ==
    [k \in 1..Len(evs) |->
        LET i == k - 1
        IN  <<"Step " \o ToString(i + 1), Len(At(evs, i).removed_idx), At(evs, i).criteria>>]

NotCalled == [kind |-> "not called", val |-> <<>>]

\* ---- run(): the loop bound, lines 271-273 -------------------------------
n_grids_of(islands, tol, nbus) ==
    IF islands + tol > nbus THEN nbus - 1 ELSE islands + tol

Max(a, b) == IF a >= b THEN a ELSE b

Min(a, b) == IF a <= b THEN a ELSE b

\* a value of progress_signal: the fraction num/den of the whole (emit(0.0) is 0/1)
Progress(num, den) == [num |-> num, den |-> den]

\* ---- construction -------------------------------------------------------
\* the heuristics' own variables, untouched by the controller
HeuristicIdle ==
    /\ cdf = NoCdf
    /\ loading_vector = <<>>
    /\ idx_arg = None

\* the controller's fields and run()'s locals right after Cascading.__init__
ControllerIdle ==
    /\ cpc = "idle"
    \* line 99: the default cascade kind; line 129: the initial log carries it
    /\ cascade_type = "LatinHypercube"
    /\ results_cascade_type = cascade_type
    /\ current_step = 0
    /\ __cancel__ = FALSE
    /\ calculation_inputs = 0
    /\ n_grids = 0
    /\ it = 0
    /\ results = 0
    /\ progress_signal = Progress(0, 1)
    /\ progress_text = ""
    /\ done_signal = 0
    /\ cancelled_in = 0

\* what a heuristic or a query has produced: nothing yet
NothingReturned ==
    /\ idx = <<>>
    /\ criteria = "None"
    /\ rand = -1
    /\ exc = "none"
    /\ ret = NotCalled

\* Cascading.__init__ on a grid with 1..MaxBuses buses and 0..MaxBranches
\* branches, all in service
Init ==
    /\ pc = "idle"
    /\ ControllerIdle
    /\ triggering_idx = None
    /\ buses \in 1..MaxBuses
    /\ max_additional_islands \in 0..MaxTol
    /\ branch_states \in {[p \in 1..nb |-> TRUE] : nb \in 0..MaxBranches}
    /\ pre_branch_states = branch_states
    /\ HeuristicIdle
    /\ NothingReturned
    /\ events = <<>>

\* ---- run() ----------------------------------------------------------------
\* line 249: a new run clears the flag; the locals of an earlier call are gone.
\* The caller serialises its calls: it starts a run when no run is active and
\* its last cancel() has returned.
RunStart ==
    /\ pc \in {"idle", "done"}
    /\ cpc = "idle"
    /\ __cancel__' = FALSE
    /\ pc' = "compile"
    /\ calculation_inputs' = 0
    /\ n_grids' = 0
    /\ it' = 0
    /\ results' = 0
    /\ idx' = <<>>
    /\ criteria' = "None"
    /\ done_signal' = 0
    /\ cancelled_in' = 0
    /\ pre_branch_states' = branch_states
    /\ UNCHANGED <<triggering_idx, cascade_type, results_cascade_type, current_step, cpc, buses, max_additional_islands, branch_states, cdf, loading_vector,
                   idx_arg, rand, exc, events, progress_signal, progress_text, ret>>

\* variant: the log of the previous run is kept
RunCompile_keeps_log ==
    /\ pc = "compile"
    /\ \E islands \in 1..buses :
        /\ calculation_inputs' = islands
        /\ n_grids' = n_grids_of(islands, max_additional_islands, buses)
    \* line 253: nc is compiled anew from the grid, which run() never writes:
    \* the branches disabled by an earlier run are in service again
    /\ branch_states' = [p \in DOMAIN branch_states |-> TRUE]
    /\ events' = events
    /\ results_cascade_type' = cascade_type
    /\ progress_signal' = Progress(0, 1)
    /\ progress_text' = "Running cascading failure..."
    /\ it' = 0
    /\ pc' = "while"
    /\ UNCHANGED <<triggering_idx, cascade_type, current_step, cpc, __cancel__, buses, max_additional_islands,
                   results, cdf, loading_vector, idx_arg, idx, criteria, rand, exc,
                   done_signal, ret, cancelled_in, pre_branch_states>>

\* lines 252-277: compile, fresh results, first notifications, the bound, it = 0
RunCompile ==
    /\ pc = "compile"
    /\ \E islands \in 1..buses :
        /\ calculation_inputs' = islands
        /\ n_grids' = n_grids_of(islands, max_additional_islands, buses)
    \* line 253: nc is compiled anew from the grid, which run() never writes:
    \* the branches disabled by an earlier run are in service again
    /\ branch_states' = [p \in DOMAIN branch_states |-> TRUE]
    \* line 256: a new, empty log of the configured kind
    /\ events' = <<>>
    /\ results_cascade_type' = cascade_type
    /\ progress_signal' = Progress(0, 1)
    /\ progress_text' = "Running cascading failure..."
    /\ it' = 0
    /\ pc' = "while"
    /\ UNCHANGED <<triggering_idx, cascade_type, current_step, cpc, __cancel__, buses, max_additional_islands,
                   results, cdf, loading_vector, idx_arg, idx, criteria, rand, exc,
                   done_signal, ret, cancelled_in, pre_branch_states>>

\* variant: the iteration test is it <= n_grids + 1
RunWhile_off_by_one ==
    /\ pc = "while"
    /\ pc' = IF calculation_inputs <= n_grids /\ it <= n_grids + 1
             THEN "solve" ELSE "finish"
    /\ UNCHANGED <<triggering_idx, cascade_type, results_cascade_type, current_step, cpc, __cancel__, buses, max_additional_islands, branch_states,
                   calculation_inputs, n_grids, it, results, cdf, loading_vector, idx_arg,
                   idx, criteria, rand, exc, events, progress_signal, progress_text,
                   done_signal, ret, cancelled_in, pre_branch_states>>

\* line 278: the loop condition
RunWhile ==
    /\ pc = "while"
    /\ pc' = IF calculation_inputs <= n_grids /\ it <= n_grids
             THEN "solve" ELSE "finish"
    /\ UNCHANGED <<triggering_idx, cascade_type, results_cascade_type, current_step, cpc, __cancel__, buses, max_additional_islands, branch_states,
                   calculation_inputs, n_grids, it, results, cdf, loading_vector, idx_arg,
                   idx, criteria, rand, exc, events, progress_signal, progress_text,
                   done_signal, ret, cancelled_in, pre_branch_states>>

\* line 282: model_simulator.run() leaves a new results object
RunSolve ==
    /\ pc = "solve"
    /\ results' = it + 1
    /\ pc' = "remove"
    /\ UNCHANGED <<triggering_idx, cascade_type, results_cascade_type, current_step, cpc, __cancel__, buses, max_additional_islands, branch_states,
                   calculation_inputs, n_grids, it, cdf, loading_vector, idx_arg, idx,
                   criteria, rand, exc, events, progress_signal, progress_text,
                   done_signal, ret, cancelled_in, pre_branch_states>>

\* line 286: idx, criteria = self.remove_probability_based(...); the heuristic
\* reads the sampler's summary (line 164) and draws its random number itself
RunRemove ==
    /\ pc = "remove"
    /\ \E c \in get_index_loading_cdf(Len(branch_states)) :
        \E r \in RandInts(c, min_prob) :
            LET out == remove_probability_based(branch_states, c, min_prob, r)
            IN  /\ idx' = out.indices
                /\ criteria' = out.criteria
                /\ branch_states' = out.branch_states
    /\ pre_branch_states' = branch_states
    /\ pc' = "append"
    /\ UNCHANGED <<triggering_idx, cascade_type, results_cascade_type, current_step, cpc, __cancel__, buses, max_additional_islands, calculation_inputs,
                   n_grids, it, results, cdf, loading_vector, idx_arg, rand, exc, events,
                   progress_signal, progress_text, done_signal, ret,
                   cancelled_in>>

\* lines 289-290: the event is built and appended
RunAppend ==
    /\ pc = "append"
    /\ events' = Append(events, CascadingReportElement(idx, results, criteria))
    /\ pc' = "compute"
    /\ UNCHANGED <<triggering_idx, cascade_type, results_cascade_type, current_step, cpc, __cancel__, buses, max_additional_islands, branch_states,
                   calculation_inputs, n_grids, it, results, cdf, loading_vector, idx_arg,
                   idx, criteria, rand, exc, progress_signal, progress_text,
                   done_signal, ret, cancelled_in, pre_branch_states>>

\* variant: the progress reported is the share of iterations still to go
RunCompute_countdown ==
    /\ pc = "compute"
    /\ \E islands \in 1..buses :
        /\ calculation_inputs' = islands
        /\ progress_signal' = Progress(Max(0, n_grids - it), n_grids + 1)
    /\ it' = it + 1
    /\ pc' = "check"
    /\ UNCHANGED <<triggering_idx, cascade_type, results_cascade_type, current_step, cpc, __cancel__, buses, max_additional_islands, branch_states,
                   n_grids, results, cdf, loading_vector, idx_arg, idx, criteria, rand, exc,
                   events, progress_text, done_signal, ret,
                   cancelled_in, pre_branch_states>>

\* lines 293-298: recompile, count the iteration, report progress
RunCompute ==
    /\ pc = "compute"
    /\ \E islands \in 1..buses :
        /\ calculation_inputs' = islands
        /\ progress_signal' = Progress(Max(islands, it + 1), n_grids + 1)
    /\ it' = it + 1
    /\ pc' = "check"
    /\ UNCHANGED <<triggering_idx, cascade_type, results_cascade_type, current_step, cpc, __cancel__, buses, max_additional_islands, branch_states,
                   n_grids, results, cdf, loading_vector, idx_arg, idx, criteria, rand, exc,
                   events, progress_text, done_signal, ret,
                   cancelled_in, pre_branch_states>>

\* variant: the flag is not read
RunCheckCancel_ignored ==
    /\ pc = "check"
    /\ pc' = "while"
    /\ UNCHANGED <<triggering_idx, cascade_type, results_cascade_type, current_step, cpc, __cancel__, buses, max_additional_islands, branch_states,
                   calculation_inputs, n_grids, it, results, cdf, loading_vector, idx_arg,
                   idx, criteria, rand, exc, events, progress_signal, progress_text,
                   done_signal, ret, cancelled_in, pre_branch_states>>

\* lines 300-301: "if self.__cancel__: break"
RunCheckCancel ==
    /\ pc = "check"
    /\ pc' = IF __cancel__ THEN "finish" ELSE "while"
    /\ UNCHANGED <<triggering_idx, cascade_type, results_cascade_type, current_step, cpc, __cancel__, buses, max_additional_islands, branch_states,
                   calculation_inputs, n_grids, it, results, cdf, loading_vector, idx_arg,
                   idx, criteria, rand, exc, events, progress_signal, progress_text,
                   done_signal, ret, cancelled_in, pre_branch_states>>

\* variant: a cancelled run returns without its finishing notifications
RunFinish_silent_when_cancelled ==
    /\ pc = "finish"
    /\ progress_signal' = IF __cancel__ THEN progress_signal ELSE Progress(0, 1)
    /\ progress_text' = IF __cancel__ THEN progress_text ELSE "Done!"
    /\ done_signal' = IF __cancel__ THEN done_signal ELSE Min(done_signal + 1, 2)
    /\ pc' = "done"
    /\ UNCHANGED <<triggering_idx, cascade_type, results_cascade_type, current_step, cpc, __cancel__, buses, max_additional_islands, branch_states,
                   calculation_inputs, n_grids, it, results, cdf, loading_vector, idx_arg,
                   idx, criteria, rand, exc, events, ret, cancelled_in,
                   pre_branch_states>>

\* lines 303-308: the finishing notifications, then run() returns
RunFinish ==
    /\ pc = "finish"
    /\ progress_signal' = Progress(0, 1)
    /\ progress_text' = "Done!"
    /\ done_signal' = Min(done_signal + 1, 2)
    /\ pc' = "done"
    /\ UNCHANGED <<triggering_idx, cascade_type, results_cascade_type, current_step, cpc, __cancel__, buses, max_additional_islands, branch_states,
                   calculation_inputs, n_grids, it, results, cdf, loading_vector, idx_arg,
                   idx, criteria, rand, exc, events, ret, cancelled_in,
                   pre_branch_states>>

\* ---- cancel(), called from another thread --------------------------------
\* the loop iteration (from 1) run() is executing, 0 between iterations
Iteration ==
    IF pc \in {"solve", "remove", "append", "compute"} THEN it + 1
    ELSE IF pc = "check" THEN it
    ELSE 0

\* line 330; cancel() is called on a controller whose run() is active
CancelSetFlag ==
    /\ cpc = "idle"
    /\ pc \notin {"idle", "done"}
    /\ __cancel__' = TRUE
    /\ cancelled_in' = IF Iteration > 0 THEN Iteration ELSE cancelled_in
    /\ cpc' = "emit"
    /\ UNCHANGED <<triggering_idx, cascade_type, results_cascade_type, current_step, pc, buses, max_additional_islands, branch_states, calculation_inputs,
                   n_grids, it, results, cdf, loading_vector, idx_arg, idx, criteria, rand,
                   exc, events, progress_signal, progress_text, done_signal, ret,
                   pre_branch_states>>

\* lines 331-333
CancelEmit ==
    /\ cpc = "emit"
    /\ progress_signal' = Progress(0, 1)
    /\ progress_text' = "Cancelled"
    /\ done_signal' = Min(done_signal + 1, 2)
    /\ cpc' = "idle"
    /\ UNCHANGED <<triggering_idx, cascade_type, results_cascade_type, current_step, pc, __cancel__, buses, max_additional_islands, branch_states,
                   calculation_inputs, n_grids, it, results, cdf, loading_vector, idx_arg,
                   idx, criteria, rand, exc, events, ret, cancelled_in,
                   pre_branch_states>>

\* ---- the controller -----------------------------------------------------
RunStep ==
    \/ RunCompile
    \/ RunWhile
    \/ RunSolve
    \/ RunRemove
    \/ RunAppend
    \/ RunCompute
    \/ RunCheckCancel
    \/ RunFinish

Next ==
    \/ RunStart
    \/ RunStep
    \/ CancelSetFlag
    \/ CancelEmit

Spec == Init /\ [][Next]_vars


\* the controller on a grid of up to MaxBusesBare buses and no branches: every
\* step logs 'No branches', the island counts are again whatever compute() returns
InitBare ==
    /\ pc = "idle"
    /\ ControllerIdle
    /\ triggering_idx = None
    /\ buses \in 1..MaxBusesBare
    /\ max_additional_islands \in 0..MaxTol
    /\ branch_states = <<>>
    /\ pre_branch_states = branch_states
    /\ HeuristicIdle
    /\ NothingReturned
    /\ events = <<>>

SpecBare == InitBare /\ [][Next]_vars

\* ---- remove_elements on its own -------------------------------------------
\* a circuit of 0..MaxLen branches in any state, a loading per branch, and idx
\* either None or a list of up to MaxIdx branch indices
InitRemove ==
    /\ pc = "call remove_elements"
    /\ ControllerIdle
    /\ triggering_idx = None
    /\ buses = 1
    /\ max_additional_islands = 0
    /\ loading_vector \in SeqsUpTo(LoadVals, MaxLen)
    /\ branch_states \in [1..Len(loading_vector) -> BOOLEAN]
    /\ pre_branch_states = branch_states
    /\ idx_arg \in {None} \cup
            {Some(s) : s \in SeqsUpTo(0..(Len(loading_vector) - 1), MaxIdx)}
    /\ cdf = NoCdf
    /\ NothingReturned
    /\ events = <<>>

\* lines 131-152
RemoveElements ==
    /\ pc = "call remove_elements"
    /\ LET out == remove_elements(branch_states, loading_vector, idx_arg)
       IN  /\ idx' = out.idx
           /\ branch_states' = out.branch_states
           /\ exc' = out.exc
    /\ pre_branch_states' = branch_states
    /\ pc' = "returned"
    /\ UNCHANGED <<triggering_idx, cascade_type, results_cascade_type, current_step, cpc, __cancel__, buses, max_additional_islands, calculation_inputs,
                   n_grids, it, results, cdf, loading_vector, idx_arg, criteria, rand,
                   events, progress_signal, progress_text, done_signal, ret,
                   cancelled_in>>

SpecRemove == InitRemove /\ [][RemoveElements]_vars

\* ---- remove_probability_based on its own ---------------------------------
\* a circuit of 0..MaxLen branches in any state and any summary the sampler
\* can report for it
InitProb ==
    /\ pc = "call remove_probability_based"
    /\ ControllerIdle
    /\ triggering_idx = None
    /\ buses = 1
    /\ max_additional_islands = 0
    /\ \E nb \in 0..MaxLen :
        /\ branch_states \in [1..nb -> BOOLEAN]
        /\ cdf \in get_index_loading_cdf(nb)
    /\ pre_branch_states = branch_states
    /\ loading_vector = <<>>
    /\ idx_arg = None
    /\ NothingReturned
    /\ events = <<>>

\* lines 154-196, called as run() calls it (max_val=1.0, min_prob=0.1)
RemoveProbabilityBased ==
    /\ pc = "call remove_probability_based"
    /\ \E r \in RandInts(cdf, min_prob) :
        LET out == remove_probability_based(branch_states, cdf, min_prob, r)
        IN  /\ idx' = out.indices
            /\ criteria' = out.criteria
            /\ branch_states' = out.branch_states
            /\ rand' = r
    /\ pre_branch_states' = branch_states
    /\ pc' = "returned"
    /\ UNCHANGED <<triggering_idx, cascade_type, results_cascade_type, current_step, cpc, __cancel__, buses, max_additional_islands, calculation_inputs,
                   n_grids, it, results, cdf, loading_vector, idx_arg, exc, events,
                   progress_signal, progress_text, done_signal, ret, cancelled_in>>

SpecProb == InitProb /\ [][RemoveProbabilityBased]_vars

\* ---- get_failed_idx on its own ------------------------------------------
\* what one loop iteration of run() can log as removed indices and criteria
\* on a grid of nb branches
Logged(nb) ==
    {[removed_idx |-> o.indices, criteria |-> o.criteria] :
        o \in UNION {{remove_probability_based([p \in 1..nb |-> TRUE], c, min_prob, r) :
                         r \in RandInts(c, min_prob)} : c \in get_index_loading_cdf(nb)}}

\* a controller whose last run() left 0..MaxEvents events
InitLog ==
    /\ pc \in {"call get_failed_idx", "call get_table"}
    /\ ControllerIdle
    /\ triggering_idx = None
    /\ buses = 1
    /\ max_additional_islands = 0
    /\ \E nb \in 0..MaxLen :
        /\ branch_states = [p \in 1..nb |-> TRUE]
        /\ \E log \in SeqsUpTo(Logged(nb), MaxEvents) :
            events = [k \in 1..Len(log) |->
                        CascadingReportElement(log[k].removed_idx, k, log[k].criteria)]
    /\ pre_branch_states = branch_states
    /\ HeuristicIdle
    /\ NothingReturned

\* lines 310-316 and 61-74
GetFailedIdx ==
    /\ pc = "call get_failed_idx"
    /\ ret' = get_failed_idx(events)
    /\ pc' = "returned"
    /\ UNCHANGED <<triggering_idx, cascade_type, results_cascade_type, current_step, cpc, __cancel__, buses, max_additional_islands, branch_states,
                   calculation_inputs, n_grids, it, results, cdf, loading_vector,
                   idx_arg, idx, criteria, rand, exc, events, progress_signal,
                   progress_text, done_signal, cancelled_in, pre_branch_states>>

\* lines 318-323 and 76-85
GetTable ==
    /\ pc = "call get_table"
    /\ ret' = [kind |-> "table", val |-> get_table(events)]
    /\ pc' = "returned get_table"
    /\ UNCHANGED <<triggering_idx, cascade_type, results_cascade_type, current_step, cpc, __cancel__, buses, max_additional_islands, branch_states,
                   calculation_inputs, n_grids, it, results, cdf, loading_vector,
                   idx_arg, idx, criteria, rand, exc, events, progress_signal,
                   progress_text, done_signal, cancelled_in, pre_branch_states>>

SpecLog == InitLog /\ [][GetFailedIdx \/ GetTable]_vars

\* ---- perform_step_run on its own ------------------------------------------
\* binding the arguments of a call: a required parameter that is neither
\* passed by position nor by keyword raises TypeError
Bind(required, given) == IF required \subseteq given THEN "none" ELSE "TypeError"

\* a freshly constructed controller on a grid of 0..MaxLen branches in any
\* state, with or without triggering indices; loading_vector is the loading
\* the step's power flow computes
InitStep ==
    /\ pc = "call perform_step_run"
    /\ ControllerIdle
    /\ buses = 1
    /\ max_additional_islands = 0
    /\ \E nb \in 0..MaxLen :
        /\ branch_states \in [1..nb -> BOOLEAN]
        /\ loading_vector \in [1..nb -> LoadVals]
        /\ triggering_idx \in {None} \cup {Some(s) : s \in SeqsUpTo(0..(nb - 1), MaxIdx)}
    /\ pre_branch_states = branch_states
    /\ idx_arg = None
    /\ cdf = NoCdf
    /\ NothingReturned
    /\ events = <<>>

\* lines 198-241.  Lines 224 and 227 call remove_elements(self.grid, idx=...)
\* without its loading_vector, and line 230 builds the report element without
\* its criteria: the first call that cannot bind its arguments raises and
\* the rest of the step is not executed.
PerformStepRun ==
    /\ pc = "call perform_step_run"
    /\ LET call  == Bind({"circuit", "loading_vector"}, {"circuit", "idx"})
           out   == remove_elements(branch_states, loading_vector,
                        IF current_step = 0 THEN triggering_idx ELSE None)
           entry == Bind({"removed_idx", "pf_results", "criteria"},
                         {"removed_idx", "pf_results"})
       IN  IF call # "none"
           THEN /\ exc' = call
                /\ pc' = "raised"
                /\ UNCHANGED <<branch_states, idx, events, current_step,
                               progress_signal, progress_text, done_signal>>
           ELSE IF out.exc # "none" \/ entry # "none"
           THEN /\ exc' = IF out.exc # "none" THEN out.exc ELSE entry
                /\ branch_states' = out.branch_states
                /\ idx' = out.idx
                /\ pc' = "raised"
                /\ UNCHANGED <<events, current_step, progress_signal, progress_text,
                               done_signal>>
           ELSE /\ exc' = "none"
                /\ branch_states' = out.branch_states
                /\ idx' = out.idx
                /\ events' = Append(events, CascadingReportElement(out.idx, 1, "None"))
                /\ current_step' = current_step + 1
                /\ progress_signal' = Progress(0, 1)
                /\ progress_text' = "Done!"
                /\ done_signal' = Min(done_signal + 1, 2)
                /\ pc' = "returned"
    /\ pre_branch_states' = branch_states
    /\ UNCHANGED <<cpc, __cancel__, buses, max_additional_islands, triggering_idx,
                   cascade_type, results_cascade_type, calculation_inputs, n_grids, it, results, cdf, loading_vector,
                   idx_arg, criteria, rand, ret, cancelled_in>>

SpecStep == InitStep /\ [][PerformStepRun]_vars

\* ---- properties -----------------------------------------------------------
\* the positions of run() inside one loop iteration
InBody == pc \in {"solve", "remove", "append", "compute", "check"}

\* the positions between the call of run() and its return
Running == pc \in {"compile", "while", "finish"} \/ InBody

\* the concatenation of the events' removed indices, in event order
RECURSIVE Concat(_)
Concat(evs) == IF Len(evs) = 0 THEN <<>> ELSE Head(evs).removed_idx \o Concat(Tail(evs))

\* the 0-based positions of v whose value is in S, as a set
Positions(v, S) == {i \in 0..(Len(v) - 1) : At(v, i) \in S}

\* C1: when cancel() set the flag while run() was executing its k-th loop
\* iteration (k >= 1), the log holds exactly k events once run() has returned.
C1_CancelledInKHasKEvents ==
    (pc = "done" /\ cancelled_in >= 1) => Len(events) = cancelled_in

C1_Witness ==
    /\ pc = "done"
    /\ cancelled_in = 2
    /\ Len(events) = 2
    /\ it <= n_grids
    /\ calculation_inputs <= n_grids

\* C2: for a run that cancel() cancelled, the last status text emitted is
\* "Cancelled": once run() has returned and cancel() has finished, no other
\* text has been emitted after it.
C2_LastTextIsCancelled ==
    (pc = "done" /\ cpc = "idle" /\ cancelled_in >= 1) => progress_text = "Cancelled"

\* C3: the bound run() uses is min(initial_islands + max_additional_islands,
\* bus_count - 1); it never exceeds bus_count - 1 and is never negative.
C3_BoundIsMin ==
    (pc = "while" /\ it = 0) =>
        /\ n_grids = Min(calculation_inputs + max_additional_islands, buses - 1)
        /\ n_grids <= buses - 1
        /\ n_grids >= 0

\* C4: run() terminates: every position of run() has a next step, the loop
\* body is entered only while the island count and the iteration counter are
\* both at most n, so it runs at most n+1 times, and a loop that ended without
\* cancellation ended because one of the two exceeded n (n is 2, hence at most
\* 3 iterations, for 5 buses, tolerance 1 and 1 initial island).
C4_LoopTerminates ==
    /\ Running => ENABLED RunStep
    /\ (Running /\ pc # "compile") => (it <= n_grids + 1 /\ Len(events) <= n_grids + 1)
    /\ pc \in {"solve", "remove", "append", "compute"} =>
            (calculation_inputs <= n_grids /\ it <= n_grids)
    /\ (pc \in {"finish", "done"} /\ ~__cancel__) =>
            (calculation_inputs > n_grids \/ it > n_grids)
    /\ n_grids_of(1, 1, 5) = 2

C4_Witness ==
    /\ pc = "done"
    /\ ~__cancel__
    /\ cancelled_in = 0
    /\ max_additional_islands = 1
    /\ n_grids = 2
    /\ it = 3
    /\ Len(events) = 3
    /\ calculation_inputs <= n_grids

\* C5: get_failed_idx() on a log without events returns an empty sequence of
\* branch indices and does not raise.
C5_EmptyLogGivesEmptySequence ==
    (pc = "returned" /\ Len(events) = 0) => (ret.kind = "value" /\ ret.val = <<>>)

\* C6: get_failed_idx() on a log of one or more events returns the
\* concatenation, in event order, of the events' removed-index sequences.
C6_ConcatenationInEventOrder ==
    (pc = "returned" /\ Len(events) >= 1) =>
        (ret.kind = "value" /\ ret.val = Concat(events))

\* C7: in the outcome "Random with overloads" exactly one branch is returned
\* and disabled, and it is one of the overload candidates the solver reported.
C7_RandomPickIsACandidate ==
    (pc = "returned" /\ criteria = "Random with overloads") =>
        /\ Len(idx) = 1
        /\ branch_states = Disable(pre_branch_states, idx)
        /\ idx[1] \in Range(cdf.idx)

C9_ExplicitIndicesVerbatim ==
    (pc = "returned" /\ ~idx_arg.is_none) =>
        /\ exc = "none"
        /\ idx = idx_arg.val
        /\ \A b \in 0..(Len(branch_states) - 1) :
            At(branch_states, b) =
                (At(pre_branch_states, b) /\ b \notin Range(idx_arg.val))

C9_Witness ==
    /\ pc = "returned"
    /\ ~idx_arg.is_none
    /\ idx = <<2, 0>>
    /\ loading_vector = <<50, 120, 90>>
    /\ pre_branch_states = <<TRUE, TRUE, TRUE>>
    /\ branch_states = <<FALSE, TRUE, FALSE>>

\* C10: remove_elements called without explicit indices on a non-empty
\* loading vector selects exactly the indices whose |loading| exceeds 1.0 when
\* there is one, otherwise exactly the indices tied for the maximum |loading|;
\* it disables the selected branches and no other ([1.2, 0.5, 0.9] gives {0},
\* [0.9, 0.5, 0.9] gives {0, 2}).
C10_OverloadedElseTiedMaxima ==
    (pc = "returned" /\ idx_arg.is_none /\ Len(loading_vector) > 0) =>
        LET over == Positions(loading_vector, {x \in Range(loading_vector) : Abs(x) > 100})
            top  == Positions(loading_vector,
                        {x \in Range(loading_vector) :
                            \A y \in Range(loading_vector) : Abs(y) <= Abs(x)})
            sel  == IF over # {} THEN over ELSE top
        IN  /\ exc = "none"
            /\ Range(idx) = sel
            /\ Len(idx) = Cardinality(sel)
            /\ \A b \in 0..(Len(branch_states) - 1) :
                At(branch_states, b) = (At(pre_branch_states, b) /\ b \notin sel)
            /\ loading_vector = <<120, 50, 90>> => Range(idx) = {0}
            /\ loading_vector = <<90, 50, 90>> => Range(idx) = {0, 2}

C10_Witness ==
    /\ pc = "returned"
    /\ idx_arg.is_none
    /\ loading_vector = <<90, 50, 90>>
    /\ idx = <<0, 2>>
    /\ pre_branch_states = <<TRUE, TRUE, TRUE>>
    /\ branch_states = <<FALSE, TRUE, FALSE>>

\* C11 as stated: for a non-empty loading vector whose entries are all <= 1.0,
\* negative entries included, remove_elements without explicit indices returns
\* exactly the indices i with loading[i] = max(loading).
C11_SignedMaximum ==
    (/\ pc = "returned"
     /\ idx_arg.is_none
     /\ Len(loading_vector) > 0
     /\ \A x \in Range(loading_vector) : x <= 100) =>
        /\ exc = "none"
        /\ Range(idx) = Positions(loading_vector, {SeqMax(loading_vector)})

\* C11 amended: for a non-empty loading vector whose entries all have an
\* absolute value <= 1.0, it returns exactly the indices i with
\* |loading[i]| = max |loading|, ties included, each once.
C11_AbsoluteMaximum ==
    (/\ pc = "returned"
     /\ idx_arg.is_none
     /\ Len(loading_vector) > 0
     /\ \A x \in Range(loading_vector) : Abs(x) <= 100) =>
        LET top == SeqMax(AbsVec(loading_vector))
        IN  /\ exc = "none"
            /\ Range(idx) = {i \in 0..(Len(loading_vector) - 1) :
                                Abs(At(loading_vector, i)) = top}
            /\ \A p, q \in 1..Len(idx) : p < q => idx[p] < idx[q]

C11_Witness ==
    /\ pc = "returned"
    /\ idx_arg.is_none
    /\ loading_vector = <<-90, 50, 90>>
    /\ idx = <<0, 2>>

\* C12: a call of perform_step_run() appends exactly one event, increases the
\* step counter by one, then reports progress 0 and a completion notification;
\* on the first step the event's removed indices are the triggering indices
\* when these are provided.
C12_StepAppendsOneEvent ==
    pc \in {"returned", "raised"} =>
        /\ exc = "none"
        /\ Len(events) = 1
        /\ current_step = 1
        /\ progress_signal = Progress(0, 1)
        /\ progress_text = "Done!"
        /\ done_signal = 1
        /\ ~triggering_idx.is_none => events[1].removed_idx = triggering_idx.val

\* C13: every progress value that run() reports from inside its loop is a
\* fraction between 0 and 1, whatever island count the recompile step returns.
C13_LoopProgressInUnitInterval ==
    pc = "check" =>
        /\ 0 <= progress_signal.num
        /\ progress_signal.num <= progress_signal.den

\* C14: in a run that is not cancelled, the progress value an iteration reports
\* is not below the value in place before it (the previous iteration's value,
\* or the 0 of the start), given that the island count has not decreased.
C14_ProgressNonDecreasing ==
    [][(/\ pc = "compute" /\ pc' = "check"
        /\ ~__cancel__
        /\ calculation_inputs' >= calculation_inputs) =>
            progress_signal'.num * progress_signal.den
                >= progress_signal.num * progress_signal'.den]_vars

\* a second iteration has reported 2/3 in a run that is not cancelled
C14_Witness ==
    /\ pc = "check"
    /\ ~__cancel__
    /\ it = 2
    /\ Len(events) = 2
    /\ progress_signal = Progress(2, 3)

\* C15: when its loop has ended, by its bounds or by cancellation, run() emits
\* a progress of 0 and then a completion notification and returns; no event is
\* appended after that.
C15_FinishingNotifications ==
    [][/\ (pc = "finish" /\ pc' # pc) =>
            /\ pc' = "done"
            /\ progress_signal' = Progress(0, 1)
            /\ progress_text' = "Done!"
            /\ done_signal' = Min(done_signal + 1, 2)
            /\ events' = events
       /\ (pc = "done" /\ pc' = "done") => events' = events
       /\ (pc \in {"while", "check"} /\ pc' \notin {pc, "solve", "while"}) => pc' = "finish"]_vars

\* a run cancelled in its first iteration, whose bounds allowed a second one,
\* has returned after both notifications
C15_Witness ==
    /\ pc = "done"
    /\ __cancel__
    /\ cancelled_in = 1
    /\ it = 1
    /\ calculation_inputs <= n_grids
    /\ it <= n_grids
    /\ Len(events) = 1
    /\ progress_text = "Done!"
    /\ done_signal = 2

\* C16: each run starts with an empty log tagged with the configured cascade
\* kind; from then on the log holds the events of this run only, one per
\* iteration, so that a finished run's event count is its iteration count.
C16_FreshLogPerRun ==
    /\ results_cascade_type = cascade_type
    /\ (pc = "while" /\ it = 0) => events = <<>>
    /\ (Running /\ pc # "compile") \/ pc = "done" =>
        /\ Len(events) = IF pc = "compute" THEN it + 1 ELSE it
        /\ \A k \in 1..Len(events) : events[k].pf_results = k

\* a second run has begun: the previous run on this controller had disabled a
\* branch (and logged it), and the log is empty again
C16_Witness ==
    /\ pc = "while"
    /\ it = 0
    /\ events = <<>>
    /\ \E p \in DOMAIN pre_branch_states : ~pre_branch_states[p]
    /\ \A p \in DOMAIN branch_states : branch_states[p]

\* the labels of the first rows of a table
StepLabels == <<"Step 1", "Step 2", "Step 3">>

\* C17: get_table() returns one row per event, in event order: row i has the
\* label "Step i", the number of removed indices of event i and its criteria;
\* an empty log gives a table without rows.
C17_OneRowPerEvent ==
    pc = "returned get_table" =>
        /\ ret.kind = "table"
        /\ Len(ret.val) = Len(events)
        /\ \A i \in 1..Len(events) :
              ret.val[i] = <<StepLabels[i], Len(events[i].removed_idx), events[i].criteria>>

\* a table of two rows, the second for an event that removed one branch
C17_Witness ==
    /\ pc = "returned get_table"
    /\ Len(events) = 2
    /\ Len(events[2].removed_idx) = 1
    /\ ret.val[2][1] = "Step 2"
    /\ ret.val[2][2] = 1
    /\ ret.val[1][3] # ret.val[2][3]

\* C18 as stated: an iteration is under way with the flag set only if cancel()
\* was called during that iteration; a cancel() called before the iteration
\* began keeps it from starting.
C18_NoIterationOnceCancelled ==
    (pc \in {"solve", "remove", "append", "compute"} /\ __cancel__) =>
        cancelled_in = it + 1

\* the criteria strings of the four outcomes of remove_probability_based
Outcomes ==
    {"Overload probability > " \o str(min_prob), "Random with overloads",
     "Max loading, Overloads not seen", "No branches"}

\* the log and the branch states agree: one complete event per iteration, and
\* the branches out of service are those of the logged events
LogConsistent ==
    /\ Len(events) = it
    /\ \A k \in 1..Len(events) :
        /\ DOMAIN events[k] = {"removed_idx", "pf_results", "criteria"}
        /\ events[k].pf_results = k
        /\ events[k].criteria \in Outcomes
        /\ Range(events[k].removed_idx) \subseteq 0..(Len(branch_states) - 1)
    /\ {i \in 0..(Len(branch_states) - 1) : ~At(branch_states, i)}
          = Range(Concat(events))

\* C19: at every iteration boundary of run() (loop head, loop exit,
\* cancellation break, return) the log has one complete event per iteration
\* and the disabled branches are exactly the logged ones; within a run the
\* events already appended are never changed.
C19_LogConsistentAtBoundaries ==
    [][/\ pc' \in {"while", "finish", "done"} => LogConsistent'
       /\ pc # "compile" =>
            /\ Len(events') >= Len(events)
            /\ SubSeq(events', 1, Len(events)) = events]_vars

\* the loop has been left by the cancellation break after one iteration that
\* disabled and logged branch 0
C19_Witness ==
    /\ pc = "finish"
    /\ __cancel__
    /\ it = 1
    /\ it <= n_grids
    /\ calculation_inputs <= n_grids
    /\ events[1].removed_idx = <<0>>
    /\ ~At(branch_states, 0)

\* C20 as stated: once a completion notification has been emitted for a run,
\* that run appends no event, disables no branch and emits no second
\* completion notification.
C20_NothingAfterCompletion ==
    [][(done_signal >= 1 /\ ~(pc \in {"idle", "done"} /\ pc' = "compile")) =>
            /\ Len(events') <= Len(events)
            /\ \A p \in DOMAIN branch_states : ~branch_states[p] => ~branch_states'[p]
            /\ \A p \in DOMAIN branch_states : branch_states[p] => branch_states'[p]
            /\ done_signal' = done_signal]_vars
====
